---- MODULE Spec2Model ----
(***************************************************************************)
(* politics.news: an RSS reader presented as a terminal list with a detail *)
(* view.  Two programs share the presentation code: the local program      *)
(* (src/unnamed/part_000) and the SSH-served program (src/main.go).        *)
(*                                                                         *)
(* Strings that the list widget filters on (titles, filter text) are       *)
(* sequences of one-character strings, so that matching is computed.       *)
(***************************************************************************)
EXTENDS Integers, Sequences, FiniteSets, TLC

VARIABLES
    sess,       \* session id -> [variant, status, fetchErr, m, cmd, fwd, launch]
    ev,         \* the event handled by the last step
    browser,    \* the links of the openBrowser goroutines started and not yet returned
    mainpc,     \* served main(): "waiting" | "shutdown" | "exited"
    srvpc,      \* the ListenAndServe goroutine: "serving" | "sending" | "returned"
    done,       \* the buffered channel `done` (capacity 1)
    listener,   \* "open" | "closed"
    conns,      \* connection -> "none" | "active" | "ended" | "killed"
    elapsed,    \* seconds since s.Shutdown(ctx) was called
    items,      \* toListItems: the argument
    items0,     \* toListItems: the argument as it was before the call
    out,        \* toListItems: the result
    apc         \* toListItems: "ready" | "done"

vars == <<sess, ev, browser, mainpc, srvpc, done, listener, conns,
          elapsed, items, items0, out, apc>>

sessVars == <<sess, ev, browser>>
srvVars == <<mainpc, srvpc, done, listener, conns, elapsed>>
adapterVars == <<items, items0, out, apc>>

-----------------------------------------------------------------------------
(* Bounds *)

MaxItems == 2
MaxFilterLen == 1
MaxLaunches == 1
MaxAdapterLen == 3
MaxConns == 2

-----------------------------------------------------------------------------
(* Data *)

None == "none"
Quit == "tea.Quit"
NoLaunch == "no-launch"

RSSItemA ==
    [Title |-> <<"o">>, Link |-> "http://a", Description |-> "A",
     Id |-> "guid-a", PublishDate |-> "mon", Creator |-> "ann"]

RSSItemB ==
    [Title |-> <<"q", "o">>, Link |-> "http://b", Description |-> "B",
     Id |-> "guid-b", PublishDate |-> "tue", Creator |-> "bob"]

RSSItemC ==
    [Title |-> <<"o">>, Link |-> "http://a", Description |-> "A",
     Id |-> "guid-c", PublishDate |-> "wed", Creator |-> ""]

RSSItemD ==
    [Title |-> <<>>, Link |-> "", Description |-> "",
     Id |-> "", PublishDate |-> "", Creator |-> ""]

RSSItem == {RSSItemA, RSSItemB, RSSItemC, RSSItemD}

FeedItem == {RSSItemA, RSSItemB}

SeqsUpTo(S, n) == UNION {[1..k -> S] : k \in 0..n}

RSSFeed == [Title : {"Playbook"}, Items : SeqsUpTo(FeedItem, MaxItems)]

rssListItemZero == [title |-> <<>>, desc |-> "", link |-> ""]

toListItems_reversed(its) ==
    [i \in 1..Len(its) |->
        [title |-> its[Len(its) + 1 - i].Title,
         desc |-> its[Len(its) + 1 - i].Description,
         link |-> its[Len(its) + 1 - i].Link]]

toListItems(its) ==
    [i \in 1..Len(its) |->
        [title |-> its[i].Title, desc |-> its[i].Description, link |-> its[i].Link]]

-----------------------------------------------------------------------------
(* The list widget (bubbles list.Model) as the program uses it *)

Chars == {"o", "q", "/"}
Keys == {"ctrl+c", "q", "enter", "esc", "o", "/", "up", "down"}
PtySizes == {<<80, 24>>}
Sizes == {<<100, 30>>}

\* tea.Msg: a tea.KeyMsg (Width and Height unused) or a tea.WindowSizeMsg (key unused)
KeyMsg == [type : {"key"}, key : Keys, Width : {0}, Height : {0}]
WindowSizeMsg == {[type |-> "size", key |-> "", Width |-> s[1], Height |-> s[2]] : s \in Sizes}
Msg == KeyMsg \cup WindowSizeMsg
NoMsg == [type |-> "", key |-> "", Width |-> 0, Height |-> 0]

Key(k) == [type |-> "key", key |-> k, Width |-> 0, Height |-> 0]

listZero ==
    [items |-> <<>>, Title |-> "", cursor |-> 0, filterState |-> "unfiltered",
     filterText |-> <<>>, width |-> 0, height |-> 0, keys |-> FALSE]

listNew(its, w, h) ==
    [items |-> its, Title |-> "List", cursor |-> 0, filterState |-> "unfiltered",
     filterText |-> <<>>, width |-> w, height |-> h, keys |-> TRUE]

RECURSIVE IsSubseq(_, _)
IsSubseq(f, t) ==
    IF f = <<>> THEN TRUE
    ELSE IF t = <<>> THEN FALSE
    ELSE IF Head(f) = Head(t) THEN IsSubseq(Tail(f), Tail(t))
    ELSE IsSubseq(f, Tail(t))

\* rssListItem.FilterValue is the title
FilterValue(r) == r.title

VisibleItems(l) ==
    IF l.filterState = "unfiltered" THEN l.items
    ELSE LET Match(r) == IsSubseq(l.filterText, FilterValue(r))
         IN SelectSeq(l.items, Match)

\* The result is a list.Item interface value: <<>> is nil, <<r>> holds r
SelectedItem(l) ==
    LET v == VisibleItems(l)
    IN IF Len(v) = 0 \/ Len(v) <= l.cursor THEN <<>> ELSE <<v[l.cursor + 1]>>

SetSize(l, w, h) == [l EXCEPT !.width = w, !.height = h]

resetFiltering(l) == [l EXCEPT !.filterState = "unfiltered", !.filterText = <<>>]

handleBrowsing(l, k) ==
    IF k = "esc" THEN
        IF l.filterState = "applied"
        THEN [list |-> resetFiltering(l), cmd |-> None]
        ELSE [list |-> l, cmd |-> Quit]
    ELSE IF k = "q" THEN [list |-> l, cmd |-> Quit]
    ELSE IF k = "down" THEN
        [list |-> IF l.cursor + 1 < Len(VisibleItems(l))
                  THEN [l EXCEPT !.cursor = l.cursor + 1] ELSE l,
         cmd |-> None]
    ELSE IF k = "up" THEN
        [list |-> IF l.cursor > 0 THEN [l EXCEPT !.cursor = l.cursor - 1] ELSE l,
         cmd |-> None]
    ELSE IF k = "/" /\ Len(l.items) # 0 THEN
        [list |-> [l EXCEPT !.filterState = "filtering", !.cursor = 0], cmd |-> None]
    ELSE [list |-> l, cmd |-> None]

handleFiltering(l, k) ==
    IF k = "esc" THEN [list |-> resetFiltering(l), cmd |-> None]
    ELSE IF k \in {"enter", "up", "down"} THEN
        [list |-> IF Len(VisibleItems(l)) = 0 \/ l.filterText = <<>>
                  THEN resetFiltering(l)
                  ELSE [l EXCEPT !.filterState = "applied"],
         cmd |-> None]
    ELSE IF k \in Chars THEN
        [list |-> [l EXCEPT !.filterText = Append(l.filterText, k)], cmd |-> None]
    ELSE [list |-> l, cmd |-> None]

listUpdate(l, msg) ==
    IF msg.type # "key" \/ ~l.keys THEN [list |-> l, cmd |-> None]
    ELSE IF msg.key = "ctrl+c" THEN [list |-> l, cmd |-> Quit]
    ELSE IF l.filterState = "filtering" THEN handleFiltering(l, msg.key)
    ELSE handleBrowsing(l, msg.key)

\* docStyle = lipgloss.NewStyle(): no margin, border or padding
GetFrameSize == <<0, 0>>

-----------------------------------------------------------------------------
(* model: the presentation state, and its Update in the two programs *)

modelZero == [list |-> listZero, showDetail |-> FALSE, selected |-> rssListItemZero]

Ret(m, cmd, launch, fwd) == [m |-> m, cmd |-> cmd, launch |-> launch, fwd |-> fwd]

\* src/main.go
UpdateServed(m, msg) ==
    IF msg.type = "key" /\ msg.key \in {"ctrl+c", "q"} THEN
        Ret(m, Quit, NoLaunch, FALSE)
    ELSE IF msg.type = "key" /\ msg.key = "enter" THEN
        LET item == SelectedItem(m.list)
        IN IF item # <<>>
           THEN Ret([m EXCEPT !.showDetail = TRUE, !.selected = item[1]], None, NoLaunch, FALSE)
           ELSE Ret(m, None, NoLaunch, FALSE)
    ELSE IF msg.type = "key" /\ msg.key = "esc" THEN
        Ret([m EXCEPT !.showDetail = FALSE], None, NoLaunch, FALSE)
    ELSE IF msg.type = "key" /\ msg.key = "o" THEN
        Ret(m, None, IF m.showDetail THEN m.selected.link ELSE NoLaunch, FALSE)
    ELSE
        LET l1 == IF msg.type = "size"
                  THEN SetSize(m.list, msg.Width - GetFrameSize[1],
                               msg.Height - GetFrameSize[2])
                  ELSE m.list
            r == listUpdate(l1, msg)
        IN Ret([m EXCEPT !.list = r.list], r.cmd, NoLaunch, TRUE)

\* src/unnamed/part_000
UpdateLocal(m, msg) ==
    IF msg.type = "key" /\ msg.key = "ctrl+c" THEN
        Ret(m, Quit, NoLaunch, FALSE)
    ELSE IF msg.type = "key" /\ msg.key = "enter" THEN
        LET item == SelectedItem(m.list)
        IN IF item # <<>>
           THEN Ret([m EXCEPT !.showDetail = TRUE, !.selected = item[1]], None, NoLaunch, FALSE)
           ELSE Ret(m, None, NoLaunch, FALSE)
    ELSE IF msg.type = "key" /\ msg.key = "esc" THEN
        Ret([m EXCEPT !.showDetail = FALSE], None, NoLaunch, FALSE)
    ELSE IF msg.type = "key" /\ msg.key = "o" THEN
        Ret(m, None, IF m.showDetail THEN m.selected.link ELSE NoLaunch, FALSE)
    ELSE
        LET l1 == IF msg.type = "size"
                  THEN SetSize(m.list, msg.Width - GetFrameSize[1],
                               msg.Height - GetFrameSize[2])
                  ELSE m.list
            r == listUpdate(l1, msg)
        IN Ret([m EXCEPT !.list = r.list], r.cmd, NoLaunch, TRUE)

IsKey(msg, k) == msg.type = "key" /\ msg.key = k

Dispatch(variant, m, msg) ==
    IF variant = "served" THEN UpdateServed(m, msg) ELSE UpdateLocal(m, msg)

\* enter opens the detail view without capturing the highlighted entry
Update_noCapture(variant, m, msg) ==
    IF IsKey(msg, "enter") /\ SelectedItem(m.list) # <<>>
    THEN Ret([m EXCEPT !.showDetail = TRUE], None, NoLaunch, FALSE)
    ELSE Dispatch(variant, m, msg)

\* enter captures the first visible entry instead of the highlighted one
Update_firstItem(variant, m, msg) ==
    IF IsKey(msg, "enter") /\ SelectedItem(m.list) # <<>>
    THEN Ret([m EXCEPT !.showDetail = TRUE, !.selected = VisibleItems(m.list)[1]],
             None, NoLaunch, FALSE)
    ELSE Dispatch(variant, m, msg)

\* esc is handled but leaves the detail view open
Update_escKeeps(variant, m, msg) ==
    IF IsKey(msg, "esc") THEN Ret(m, None, NoLaunch, FALSE)
    ELSE Dispatch(variant, m, msg)

\* 'o' launches the browser without looking at showDetail
Update_openAlways(variant, m, msg) ==
    IF IsKey(msg, "o") THEN Ret(m, None, m.selected.link, FALSE)
    ELSE Dispatch(variant, m, msg)

\* the quit keys close an open detail view instead of quitting
Update_quitClosesDetail(variant, m, msg) ==
    IF (IsKey(msg, "ctrl+c") \/ IsKey(msg, "q")) /\ m.showDetail
    THEN Ret([m EXCEPT !.showDetail = FALSE], None, NoLaunch, FALSE)
    ELSE Dispatch(variant, m, msg)

Update(variant, m, msg) ==
    IF variant = "served" THEN UpdateServed(m, msg) ELSE UpdateLocal(m, msg)

\* View: what is rendered; renderOk is whether glamour.Render succeeded
NoModal == <<>>

ViewServed(m, renderOk) ==
    [list |-> VisibleItems(m.list),
     modal |-> IF m.showDetail /\ renderOk
               THEN <<m.selected.title, m.selected.desc, m.selected.link>>
               ELSE NoModal]

ViewLocal(m, renderOk) ==
    [list |-> VisibleItems(m.list),
     modal |-> IF m.showDetail /\ renderOk
               THEN <<m.selected.title, m.selected.desc, m.selected.link>>
               ELSE NoModal]

View(variant, m, renderOk) ==
    IF variant = "served" THEN ViewServed(m, renderOk) ELSE ViewLocal(m, renderOk)

-----------------------------------------------------------------------------
(* Sessions: a model driven by the bubbletea event loop *)

RSSFeedZero == [Title |-> "", Items |-> <<>>]

\* scrapeUrlFeed: (RSSFeed{}, err) on a transport, read or XML error, else the channel
scrapeUrlFeed ==
    {[err |-> TRUE, feed |-> RSSFeedZero]} \cup {[err |-> FALSE, feed |-> f] : f \in RSSFeed}

\* cmd, fwd and launch record what the last Update returned, whether it called
\* m.list.Update, and the link it started openBrowser with
NewSession == [variant |-> "", status |-> "init", fetchErr |-> FALSE, m |-> modelZero,
               cmd |-> None, fwd |-> FALSE, launch |-> NoLaunch]

IdleSrv ==
    /\ mainpc = "idle" /\ srvpc = "idle" /\ done = <<>> /\ listener = "idle"
    /\ conns = <<>> /\ elapsed = 0

IdleAdapter == items = <<>> /\ items0 = <<>> /\ out = <<>> /\ apc = "idle"

Event(kind, id, msg) == [kind |-> kind, id |-> id, msg |-> msg]

\* main() of the local program: one fetch, fatal on error, else one session
mainLocal(id, res) ==
    /\ sess[id].status = "init"
    /\ sess' = [sess EXCEPT ![id] =
          IF res.err
          THEN [@ EXCEPT !.variant = "local", !.status = "fatal", !.fetchErr = TRUE]
          ELSE [@ EXCEPT !.variant = "local", !.status = "running",
                         !.m = [modelZero EXCEPT !.list =
                                  [listNew(toListItems(res.feed.Items), 0, 0)
                                      EXCEPT !.Title = res.feed.Title]]]]
    /\ ev' = Event("start", id, NoMsg)
    /\ UNCHANGED <<browser, srvVars, adapterVars>>

\* The handler keeps the model in a package-level variable that all sessions use
teaHandler_shared(id, res, pty) ==
    /\ sess[id].status = "init"
    /\ sess' = [c \in DOMAIN sess |->
          IF c # id /\ sess[c].status # "running" THEN sess[c]
          ELSE IF res.err
          THEN [sess[c] EXCEPT !.variant = "served", !.status = "running",
                               !.fetchErr = (c = id), !.m = modelZero]
          ELSE [sess[c] EXCEPT !.variant = "served", !.status = "running",
                         !.m = [modelZero EXCEPT !.list =
                                  [listNew(toListItems(res.feed.Items), pty[1], pty[2])
                                      EXCEPT !.Title = res.feed.Title]]]]
    /\ ev' = Event("start", id, NoMsg)
    /\ UNCHANGED <<browser, srvVars, adapterVars>>

\* teaHandler of the served program: one fetch per connection, model{} on error
teaHandler(id, res, pty) ==
    /\ sess[id].status = "init"
    /\ sess' = [sess EXCEPT ![id] =
          IF res.err
          THEN [@ EXCEPT !.variant = "served", !.status = "running",
                         !.fetchErr = TRUE, !.m = modelZero]
          ELSE [@ EXCEPT !.variant = "served", !.status = "running",
                         !.m = [modelZero EXCEPT !.list =
                                  [listNew(toListItems(res.feed.Items), pty[1], pty[2])
                                      EXCEPT !.Title = res.feed.Title]]]]
    /\ ev' = Event("start", id, NoMsg)
    /\ UNCHANGED <<browser, srvVars, adapterVars>>

\* The session after the event loop has called Update(msg) and acted on its command
AfterUpdate(s, r) ==
    [s EXCEPT !.m = r.m, !.cmd = r.cmd, !.fwd = r.fwd, !.launch = r.launch,
              !.status = IF r.cmd = Quit THEN "quit" ELSE "running"]

InBounds(r, n) ==
    /\ Len(r.m.list.filterText) <= MaxFilterLen
    /\ r.launch # NoLaunch => n < MaxLaunches

\* `go openBrowser(link)`: the goroutine is started and Update goes on
GoOpenBrowser(b, launch) == IF launch # NoLaunch THEN Append(b, launch) ELSE b

\* One turn of a session's event loop: a key or resize message through Update
Step(id, msg) ==
    /\ sess[id].status = "running"
    /\ LET r == Update(sess[id].variant, sess[id].m, msg)
       IN /\ InBounds(r, Len(browser))
          /\ sess' = [sess EXCEPT ![id] = AfterUpdate(@, r)]
          /\ browser' = GoOpenBrowser(browser, r.launch)
    /\ ev' = Event("msg", id, msg)
    /\ UNCHANGED <<srvVars, adapterVars>>

Remove(q, i) == [j \in 1..(Len(q) - 1) |-> IF j < i THEN q[j] ELSE q[j + 1]]

\* An openBrowser goroutine returns; nobody reads its error
openBrowser ==
    /\ \E i \in 1..Len(browser) : browser' = Remove(browser, i)
    /\ ev' = Event("browser", "", NoMsg)
    /\ UNCHANGED <<sess, srvVars, adapterVars>>

Init ==
    /\ sess = [id \in {"S"} |-> NewSession]
    /\ ev = Event("init", "", NoMsg)
    /\ browser = <<>>
    /\ IdleSrv /\ IdleAdapter

Next ==
    \/ \E res \in scrapeUrlFeed : mainLocal("S", res)
    \/ \E res \in scrapeUrlFeed, pty \in PtySizes : teaHandler("S", res, pty)
    \/ \E msg \in Msg : Step("S", msg)
    \/ openBrowser

Spec == Init /\ [][Next]_vars

-----------------------------------------------------------------------------
(* The two programs side by side: the same feed, the same messages *)

PairStart(res, pty) ==
    /\ ~res.err
    /\ sess["local"].status = "init" /\ sess["served"].status = "init"
    /\ sess' = [id \in {"local", "served"} |->
          [sess[id] EXCEPT !.variant = id, !.status = "running",
              !.m = [modelZero EXCEPT !.list =
                       [listNew(toListItems(res.feed.Items),
                                IF id = "served" THEN pty[1] ELSE 0,
                                IF id = "served" THEN pty[2] ELSE 0)
                           EXCEPT !.Title = res.feed.Title]]]]
    /\ ev' = Event("start", "both", NoMsg)
    /\ UNCHANGED <<browser, srvVars, adapterVars>>

PairStep(msg) ==
    /\ sess["local"].status = "running" /\ sess["served"].status = "running"
    /\ LET rl == UpdateLocal(sess["local"].m, msg)
           rs == UpdateServed(sess["served"].m, msg)
       IN /\ InBounds(rl, Len(browser)) /\ InBounds(rs, Len(browser))
          /\ sess' = [sess EXCEPT !["local"] = AfterUpdate(@, rl),
                                  !["served"] = AfterUpdate(@, rs)]
          /\ browser' = GoOpenBrowser(GoOpenBrowser(browser, rl.launch), rs.launch)
    /\ ev' = Event("msg", "both", msg)
    /\ UNCHANGED <<srvVars, adapterVars>>

InitPair ==
    /\ sess = [id \in {"local", "served"} |-> NewSession]
    /\ ev = Event("init", "", NoMsg)
    /\ browser = <<>>
    /\ IdleSrv /\ IdleAdapter

NextPair ==
    \/ \E res \in scrapeUrlFeed, pty \in PtySizes : PairStart(res, pty)
    \/ \E msg \in Msg : PairStep(msg)
    \/ openBrowser

SpecPair == InitPair /\ [][NextPair]_vars

Started(s) == s.status \in {"running", "quit"}

\* What the claim compares: the detail flag, the selected entry, the list state
\* (without the terminal size, which differs until the first resize)
Presentation(m) ==
    [showDetail |-> m.showDetail, selected |-> m.selected, items |-> m.list.items,
     Title |-> m.list.Title, cursor |-> m.list.cursor,
     filterState |-> m.list.filterState, filterText |-> m.list.filterText]

\* C7: fed the same messages from the same entries, the local and the served
\* Update go through the same presentation states, forward the same messages to
\* the list widget and return the same quit and browser-launch effects.
C7_SameTransitions ==
    LET l == sess["local"]
        s == sess["served"]
    IN (DOMAIN sess = {"local", "served"} /\ Started(l) /\ Started(s)) =>
          /\ Presentation(l.m) = Presentation(s.m)
          /\ l.cmd = s.cmd
          /\ l.launch = s.launch
          /\ l.fwd = s.fwd
          /\ l.status = s.status

-----------------------------------------------------------------------------
(* Served mode: two connections X and Y, each with its own session *)

Conn == {"X", "Y"}

\* What the fetch of a connection returns here: an error, or the feed of two items
ConnFetch ==
    {r \in scrapeUrlFeed : r.err \/ r.feed.Items = <<RSSItemA, RSSItemB>>}

ConnMsg == {Key(k) : k \in {"enter", "esc", "down", "o", "q"}} \cup WindowSizeMsg

InitServed ==
    /\ sess = [id \in Conn |-> NewSession]
    /\ ev = Event("init", "", NoMsg)
    /\ browser = <<>>
    /\ IdleSrv /\ IdleAdapter

NextServed ==
    \/ \E c \in Conn, res \in ConnFetch, pty \in PtySizes : teaHandler(c, res, pty)
    \/ \E c \in Conn, msg \in ConnMsg : Step(c, msg)
    \/ openBrowser

SpecServed == InitServed /\ [][NextServed]_vars

\* C8: a connection whose fetch fails is still served, with no entries and an
\* empty title; every connection fetches once, before its first message; a step
\* of one connection (its fetch, failed or not, or any message it handles)
\* leaves every other connection's session as it was, so a connection that
\* fetched successfully keeps its entries, title, detail flag and selection.
C8_Isolated ==
    [][\A c \in DOMAIN sess :
          /\ ev' = Event("start", c, NoMsg) =>
                /\ sess[c].status = "init"
                /\ sess'[c].status = "running"
                /\ sess'[c].fetchErr => sess'[c].m = modelZero
          /\ (Started(sess'[c]) /\ sess'[c].fetchErr) =>
                /\ Len(sess'[c].m.list.items) = 0
                /\ sess'[c].m.list.Title = ""
          /\ (ev'.kind = "msg" /\ ev'.id = c) => sess[c].status = "running"
          /\ ev'.id # c => sess'[c] = sess[c]
          /\ Started(sess[c]) =>
                /\ sess'[c].m.list.items = sess[c].m.list.items
                /\ sess'[c].m.list.Title = sess[c].m.list.Title
                /\ sess'[c].fetchErr = sess[c].fetchErr]_vars

C8_Witness ==
    /\ DOMAIN sess = Conn
    /\ sess["X"].status = "running" /\ sess["X"].fetchErr
    /\ sess["X"].m.list.items = <<>> /\ sess["X"].m.list.Title = ""
    /\ sess["Y"].status = "running" /\ ~sess["Y"].fetchErr
    /\ Len(sess["Y"].m.list.items) = 2 /\ sess["Y"].m.list.Title = "Playbook"
    /\ sess["Y"].m.showDetail /\ sess["Y"].m.list.cursor = 1
    /\ ev = Event("msg", "X", Key("enter"))

-----------------------------------------------------------------------------
(* Served mode: main(), the ListenAndServe goroutine and graceful shutdown *)

\* context.WithTimeout(context.Background(), 30*time.Second)
ShutdownTimeout == 30

ConnId == 1..MaxConns

IdleSess == sess = <<>> /\ ev = Event("init", "", NoMsg) /\ browser = <<>>

\* s.ListenAndServe() returns an error other than ssh.ErrServerClosed: the
\* listener could not be opened, or it broke while serving
ListenAndServeErr ==
    /\ mainpc = "waiting"
    /\ srvpc \in {"start", "serving"}
    /\ srvpc' = "sending"
    /\ listener' = "closed"
    /\ UNCHANGED <<mainpc, done, conns, elapsed, sessVars, adapterVars>>

\* s.ListenAndServe() has opened the listener and serves
Listen ==
    /\ mainpc = "waiting"
    /\ srvpc = "start"
    /\ srvpc' = "serving"
    /\ listener' = "open"
    /\ UNCHANGED <<mainpc, done, conns, elapsed, sessVars, adapterVars>>

\* s.ListenAndServe() called on the server that Shutdown has closed: ErrServerClosed
ListenClosed ==
    /\ mainpc = "shutdown"
    /\ srvpc = "start"
    /\ srvpc' = "returned"
    /\ UNCHANGED <<mainpc, done, listener, conns, elapsed, sessVars, adapterVars>>

\* done <- nil, which blocks while the channel's one slot is taken
SendNil ==
    /\ mainpc # "exited"
    /\ srvpc = "sending"
    /\ Len(done) < 1
    /\ done' = Append(done, "nil")
    /\ srvpc' = "returned"
    /\ UNCHANGED <<mainpc, listener, conns, elapsed, sessVars, adapterVars>>

\* SIGINT or SIGTERM: signal.Notify sends without blocking and drops the signal
\* when the channel is full
Signal ==
    /\ mainpc # "exited"
    /\ Len(done) < 1
    /\ done' = Append(done, "signal")
    /\ UNCHANGED <<mainpc, srvpc, listener, conns, elapsed, sessVars, adapterVars>>

\* The server accepts a connection and runs its session
Accept(c) ==
    /\ mainpc # "exited"
    /\ srvpc = "serving"
    /\ listener = "open"
    /\ conns[c] = "none"
    /\ conns' = [conns EXCEPT ![c] = "active"]
    /\ UNCHANGED <<mainpc, srvpc, done, listener, elapsed, sessVars, adapterVars>>

\* A session ends on its own (its user quits or disconnects)
ConnEnd(c) ==
    /\ mainpc # "exited"
    /\ conns[c] = "active"
    /\ conns' = [conns EXCEPT ![c] = "ended"]
    /\ UNCHANGED <<mainpc, srvpc, done, listener, elapsed, sessVars, adapterVars>>

\* <-done, then s.Shutdown(ctx) closes the listener, which makes Serve return
\* ssh.ErrServerClosed, and starts waiting for the connections
MainRecv ==
    /\ mainpc = "waiting"
    /\ done # <<>>
    /\ done' = Tail(done)
    /\ mainpc' = "shutdown"
    /\ elapsed' = 0
    /\ listener' = "closed"
    /\ srvpc' = IF srvpc = "serving" THEN "returned" ELSE srvpc
    /\ UNCHANGED <<conns, sessVars, adapterVars>>

\* A second of the context's timeout passes
Tick ==
    /\ mainpc = "shutdown"
    /\ elapsed < ShutdownTimeout
    /\ elapsed' = elapsed + 1
    /\ UNCHANGED <<mainpc, srvpc, done, listener, conns, sessVars, adapterVars>>

ProcessExit == [c \in DOMAIN conns |-> IF conns[c] = "active" THEN "killed" ELSE conns[c]]

\* main returns as soon as Shutdown is called, without waiting for it
ShutdownReturn_noWait ==
    /\ mainpc = "shutdown"
    /\ mainpc' = "exited"
    /\ conns' = ProcessExit
    /\ UNCHANGED <<srvpc, done, listener, elapsed, sessVars, adapterVars>>

\* s.Shutdown(ctx) returns when no connection is left or when ctx is done; main
\* returns and the process exits, which ends the sessions still open
ShutdownReturn ==
    /\ mainpc = "shutdown"
    /\ (\A c \in ConnId : conns[c] # "active") \/ elapsed = ShutdownTimeout
    /\ mainpc' = "exited"
    /\ conns' = ProcessExit
    /\ UNCHANGED <<srvpc, done, listener, elapsed, sessVars, adapterVars>>

InitShutdown ==
    /\ mainpc = "waiting" /\ srvpc = "start" /\ done = <<>> /\ listener = "closed"
    /\ conns = [c \in ConnId |-> "none"]
    /\ elapsed = 0
    /\ IdleSess /\ IdleAdapter

NextShutdown ==
    \/ ListenAndServeErr
    \/ Listen
    \/ ListenClosed
    \/ SendNil
    \/ Signal
    \/ \E c \in ConnId : Accept(c)
    \/ \E c \in ConnId : ConnEnd(c)
    \/ MainRecv
    \/ Tick
    \/ ShutdownReturn

\* The Go scheduler runs every runnable goroutine, and time passes
SpecShutdown ==
    /\ InitShutdown /\ [][NextShutdown]_vars
    /\ WF_vars(MainRecv) /\ WF_vars(SendNil) /\ WF_vars(Tick) /\ WF_vars(ShutdownReturn)

-----------------------------------------------------------------------------
(* The Item Adapter on its own *)

CallToListItems ==
    /\ apc = "ready"
    /\ out' = toListItems(items)
    /\ items' = items
    /\ apc' = "done"
    /\ UNCHANGED <<items0, sessVars, srvVars>>

InitAdapter ==
    /\ items \in SeqsUpTo(RSSItem, MaxAdapterLen)
    /\ items0 = items
    /\ out = <<>>
    /\ apc = "ready"
    /\ IdleSess /\ IdleSrv

NextAdapter == CallToListItems

SpecAdapter == InitAdapter /\ [][NextAdapter]_vars

\* C10: toListItems returns one entry per item, in the items' order, entry i
\* holding item i's title, description and link and nothing else; the argument
\* is left as it was.
C10_Adapter ==
    apc = "done" =>
        /\ Len(out) = Len(items0)
        /\ \A i \in 1..Len(items0) :
              /\ out[i].title = items0[i].Title
              /\ out[i].desc = items0[i].Description
              /\ out[i].link = items0[i].Link
              /\ DOMAIN out[i] = {"title", "desc", "link"}
        /\ items = items0

C10_Witness ==
    /\ apc = "done"
    /\ Len(out) = 3
    /\ items0[1] = RSSItemC /\ items0[2] = RSSItemB /\ items0[3] = RSSItemD
    /\ out[1].title = <<"o">> /\ out[2].link = "http://b" /\ out[3] = rssListItemZero

-----------------------------------------------------------------------------
(* Properties of one session (Spec) *)

KeyStep(id, k) == ev' = Event("msg", id, Key(k)) /\ sess[id].status = "running"

Held(m) == \E i \in 1..Len(m.list.items) : m.list.items[i] = m.selected

Unused(variant, m) ==
    /\ \A ok \in BOOLEAN : View(variant, m, ok).modal = NoModal
    /\ Update(variant, m, Key("o")).launch = NoLaunch

C2_EnterAlwaysDetail ==
    [][\A id \in DOMAIN sess :
          (KeyStep(id, "enter") /\ ~sess[id].m.showDetail) =>
              /\ sess'[id].m.showDetail
              /\ <<sess'[id].m.selected>> = SelectedItem(sess[id].m.list)]_vars

\* C2 (amended): enter in Listing opens the detail view on the entry highlighted
\* at that moment when the list highlights one (also while the filter input is
\* active); when nothing is highlighted (no entries, or a filter that matches
\* nothing) the session stays in Listing with its state unchanged.
C2_EnterDetailIfHighlighted ==
    [][\A id \in DOMAIN sess :
          (KeyStep(id, "enter") /\ ~sess[id].m.showDetail) =>
              IF SelectedItem(sess[id].m.list) # <<>>
              THEN /\ sess'[id].m.showDetail
                   /\ <<sess'[id].m.selected>> = SelectedItem(sess[id].m.list)
                   /\ sess'[id].m.list = sess[id].m.list
                   /\ sess'[id].status = "running"
              ELSE /\ sess'[id].m = sess[id].m
                   /\ sess'[id].status = "running"]_vars

C2_Witness ==
    \E id \in DOMAIN sess :
        /\ ev = Event("msg", id, Key("enter"))
        /\ sess[id].m.showDetail
        /\ sess[id].m.list.filterState = "filtering"
        /\ sess[id].m.list.cursor = 0
        /\ <<sess[id].m.selected>> = SelectedItem(sess[id].m.list)

\* C3 as stated: esc in Detail returns to Listing and the selected entry is no
\* longer held.
C3_EscClearsSelected ==
    [][\A id \in DOMAIN sess :
          (KeyStep(id, "esc") /\ sess[id].m.showDetail) =>
              /\ ~sess'[id].m.showDetail
              /\ sess'[id].m.selected = rssListItemZero]_vars

\* C3 (amended): esc in Detail returns to Listing; the selected field keeps the
\* entry, which from then on is neither rendered nor launched until an enter
\* opens the detail view again.
C3_EscClosesDetail ==
    [][\A id \in DOMAIN sess :
          /\ (KeyStep(id, "esc") /\ sess[id].m.showDetail) =>
                /\ ~sess'[id].m.showDetail
                /\ sess'[id].m.selected = sess[id].m.selected
                /\ sess'[id].m.list = sess[id].m.list
                /\ sess'[id].cmd = None
                /\ sess'[id].status = "running"
          /\ (Started(sess'[id]) /\ ~sess'[id].m.showDetail) =>
                Unused(sess'[id].variant, sess'[id].m)
          /\ (Started(sess[id]) /\ ~sess[id].m.showDetail /\ sess'[id].m.showDetail) =>
                ev' = Event("msg", id, Key("enter"))]_vars

C3_Witness ==
    \E id \in DOMAIN sess :
        /\ ev = Event("msg", id, Key("esc"))
        /\ sess[id].status = "running"
        /\ ~sess[id].m.showDetail
        /\ Held(sess[id].m)

\* C4: openBrowser is started exactly when 'o' arrives in Detail, with the link
\* of the selected entry; the step leaves the model unchanged, returns no
\* command and ends with the goroutine still running; in Listing 'o' changes
\* nothing and starts nothing.
C4_OpenInBrowser ==
    [][/\ \A id \in DOMAIN sess :
             KeyStep(id, "o") =>
                 /\ sess'[id].m = sess[id].m
                 /\ sess'[id].cmd = None
                 /\ sess'[id].status = "running"
                 /\ browser' = IF sess[id].m.showDetail
                               THEN Append(browser, sess[id].m.selected.link)
                               ELSE browser
       /\ Len(browser') > Len(browser) =>
             /\ ev'.kind = "msg"
             /\ ev'.msg = Key("o")
             /\ sess[ev'.id].m.showDetail]_vars

C4_Witness ==
    \E id \in DOMAIN sess :
        /\ ev = Event("msg", id, Key("esc"))
        /\ sess[id].status = "running"
        /\ browser = <<sess[id].m.selected.link>>

\* The keys the list widget takes as navigation or filter text in its state
ListKeys(l) ==
    IF l.filterState = "filtering"
    THEN Chars \cup {"enter", "esc", "up", "down"}
    ELSE {"up", "down", "/"}

\* C5: in Listing every navigation key and every filter-text key is handed to
\* the list widget and the session stays in Listing.
C5_ListKeysDelegated ==
    [][\A id \in DOMAIN sess :
          \A k \in ListKeys(sess[id].m.list) :
              (KeyStep(id, k) /\ ~sess[id].m.showDetail) =>
                  /\ sess'[id].fwd
                  /\ ~sess'[id].m.showDetail
                  /\ sess'[id].m.list = listUpdate(sess[id].m.list, Key(k)).list]_vars

====
